---- MODULE Spec2Model ----
(***************************************************************************)
(* A model of async_firmata: the SerialIO frame decoder, the command       *)
(* dispatcher and handshake of Board, the connection lifecycle of          *)
(* SerialBoard and the Pin model.                                          *)
(*                                                                         *)
(* Six specifications share the module:                                    *)
(*   SpecDecoder  SerialIO.data_received fed with arbitrary byte chunks,   *)
(*                and Protocol.data_received fed the same chunks           *)
(*   SpecGate     chunks delivered before and after the board is ready     *)
(*   SpecDispatch add_command_handler and handle_sysex_command             *)
(*   Spec         the asyncio event loop running SerialBoard: setup, the   *)
(*                handshake, disconnects, the revive loop, writes, close   *)
(*   SpecPins     the negotiation handlers and the Pin operations          *)
(*   SpecValues   the value setter of a Pin and its change callbacks       *)
(***************************************************************************)
EXTENDS Integers, Sequences, FiniteSets, TLC

(***************************************************************************)
(* Wire constants.  async_firmata/const.py is imported by every source     *)
(* file but is not among them; the values are those of the Firmata         *)
(* protocol (the ArduinoUno preset, board.py:261, uses 127 as sentinel).   *)
(***************************************************************************)
START_SYSEX == 240
SYSEX_END == 247
ANALOG_MESSAGE == 224
DIGITAL_MESSAGE == 144
SYSEX_REALTIME == 127
SYSEX_FIRMWARE_INFO == 121
CAPABILITY_QUERY == 107
CAPABILITY_RESPONSE == 108
ANALOG_MAPPING_QUERY == 105
ANALOG_MAPPING_RESPONSE == 106
SYSEX_STRING == 113
PIN_STATE_RESPONSE == 110
SET_PIN_MODE == 244
\* the name protocol.py uses for the start marker
SYSEX_START == 240

(***************************************************************************)
(* Bounds of the model.                                                    *)
(***************************************************************************)
MaxStream == 6
MaxChunk == 3
MaxGateStream == 4
MaxEvents == 2      \* in Spec: disconnects, frames the device sends unasked,
                    \* SerialExceptions of a revive attempt, send_data and
                    \* close calls of the application, all together
MaxPins == 2        \* pins the device reports in SpecPins
MaxValue == 1       \* pin values 0..MaxValue
MaxSched == 1       \* change callbacks waiting to run

VARIABLES
    \* ---- SpecDecoder: one SerialIO instance fed with chunks
    decReady,       \* board._ready.is_set() as the decoder sees it
    decDelivered,   \* every byte delivered so far, in order
    decBuffer,      \* SerialIO._buffer
    decOut,         \* the dispatches made so far, in order
    decRaised,      \* the exception of the latest data_received call that raised
    decObs,         \* observation: what was delivered and decoded before ready
    proto,          \* a Protocol (protocol.py) fed the same chunks: its
                    \* _buffer, its dispatches and the latest exception
    lastDispatch,   \* observation: the latest handle_sysex_command call
    \* ---- the board (Board.__init__, board.py:103-109) and its pins
    writer,         \* Board.writer: the SerialIO of the latest setup (0: none yet)
    registry,       \* Board._cmd_handlers: command code -> set of handlers
    boardReady,     \* Board._ready.is_set()
    firmware,       \* Board.firmware
    pin_specs,      \* Board._pin_specs
    analog,         \* Board.analog
    digital,        \* Board.digital
    lastError,      \* the exception the latest board or pin operation raised
    \* ---- Spec: connections, coroutines and the event loop
    revive,         \* SerialBoard.revive_connection
    alive,          \* per SerialIO: its serial port is open
    connected,      \* per SerialIO: _connected.is_set()
    buffers,        \* per SerialIO: _buffer
    deviceQ,        \* per SerialIO: queries the device received and has not answered
    mainPc,         \* the application's first call of setup
    setupPc,        \* per run of Board.setup: where the coroutine is suspended
    setupCaller,    \* per run of Board.setup: 0 the application, r a revive loop
    events,         \* per run of Board.setup: the fetch steps whose Event is set
    revivePc,       \* per SerialBoard.connection_lost coroutine
    waiters,        \* writes suspended in SerialIO.write on _connected.wait()
    loopq,          \* the event loop's ready queue (FIFO)
    wire,           \* every transport.write made, in order
    appWrites,      \* the application's send_data calls
    hist,           \* observations: counters and per-run history
    \* ---- SpecPins: the application's use of the pins
    scheduled,      \* change callbacks scheduled and not yet run, in order
    lastRun,        \* observation: the latest callback run
    lastOp,         \* observation: the latest pin operation and its outcome
    obs             \* observation: the latest negotiation, what was asked of each pin

decVars == <<decReady, decDelivered, decBuffer, decOut, decRaised, decObs, proto,
             lastDispatch>>

boardVars == <<writer, registry, boardReady, firmware, pin_specs, analog, digital,
               lastError>>

loopVars == <<revive, alive, connected, buffers, deviceQ, mainPc, setupPc,
              setupCaller, events, revivePc, waiters, loopq, wire, appWrites, hist>>

pinVars == <<scheduled, lastRun, lastOp, obs>>

vars == <<decVars, boardVars, loopVars, pinVars>>

(***************************************************************************)
(* Python helpers.                                                         *)
(***************************************************************************)
Contains(s, b) == \E i \in 1..Len(s) : s[i] = b

\* list.index(b): the first position of b (1-based here); b is in s
IndexOf(s, b) == CHOOSE i \in 1..Len(s) : s[i] = b /\ \A j \in 1..(i-1) : s[j] # b

\* del s[:n]
DropFirst(s, n) == SubSeq(s, n + 1, Len(s))

RECURSIVE BitOr(_, _)
BitOr(a, b) ==
    IF a = 0 THEN b
    ELSE IF b = 0 THEN a
    ELSE (IF a % 2 = 1 \/ b % 2 = 1 THEN 1 ELSE 0) + 2 * BitOr(a \div 2, b \div 2)

HighNibble(c) == c - (c % 16)
LowNibble(c) == c % 16

\* value = msb << 7 | lsb
SplitValue(lsb, msb) == BitOr(msb * 128, lsb)

(***************************************************************************)
(* SerialIO.data_received (board.py:45-67).  A decoder state is the        *)
(* buffer, the dispatches scheduled by the call (ensure_future, in order)  *)
(* and the exception the call ended with.                                  *)
(***************************************************************************)
SysexDispatch(command, data) ==
    [kind |-> "sysex", num |-> command, value |-> 0, data |-> data]

DirectDispatch(kind, pin, value) ==
    [kind |-> kind, num |-> pin, value |-> value, data |-> <<>>]

\* the while loop of lines 62-67
RECURSIVE SysexLoop(_)
SysexLoop(st) ==
    IF ~(Contains(st.buf, SYSEX_END) /\ Contains(st.buf, START_SYSEX))
    THEN st
    ELSE LET b1 == DropFirst(st.buf, IndexOf(st.buf, START_SYSEX)) IN
         IF ~Contains(b1, SYSEX_END)
         THEN \* line 64: bytearray.index raises, line 63 has already deleted
              [st EXCEPT !.buf = b1, !.raised = "ValueError"]
         ELSE LET e == IndexOf(b1, SYSEX_END)
                  sysex_message == SubSeq(b1, 1, e - 1)
                  b2 == DropFirst(b1, e)
              IN  IF sysex_message = <<>>
                  THEN \* line 66: pop from empty bytearray
                       [st EXCEPT !.buf = b2, !.raised = "IndexError"]
                  ELSE SysexLoop([st EXCEPT
                          !.buf = b2,
                          !.out = Append(@, SysexDispatch(Head(sysex_message),
                                                          Tail(sysex_message)))])

\* a decoder that takes the board for ready whatever its Event says
ReadyIgnored(ready) == TRUE

\* self.board._ready.is_set() (line 49)
IsSet(ready) == ready

\* the whole handler: packet is not empty (the transport delivers what it read)
DataReceived(buf, ready, packet) ==
    LET b0 == buf \o packet
        st0 == [buf |-> b0, out |-> <<>>, raised |-> "none"]
    IN  IF b0[1] < START_SYSEX /\ Len(b0) >= 3 /\ IsSet(ready)
        THEN LET command == b0[1]
                 message_type == HighNibble(command)
                 pin == LowNibble(command)
                 value == SplitValue(b0[2], b0[3])
                 b1 == DropFirst(b0, 3)
             IN  IF message_type = ANALOG_MESSAGE
                 THEN [st0 EXCEPT !.buf = b1,
                                  !.out = <<DirectDispatch("analog", pin, value)>>]
                 ELSE IF message_type = DIGITAL_MESSAGE
                 THEN [st0 EXCEPT !.buf = b1,
                                  !.out = <<DirectDispatch("digital", pin, value)>>]
                 ELSE SysexLoop([st0 EXCEPT !.buf = b1])
        ELSE SysexLoop(st0)

(***************************************************************************)
(* Protocol.data_received (protocol.py:26-52), after connection_made made  *)
(* the buffer.  The direct branch reads the chunk, not the buffer, and     *)
(* calls the board's handler with three arguments: Board.handle_analog_    *)
(* message and handle_digital_message (board.py:161, 165) take two, so the *)
(* call raises TypeError before any coroutine is made, and a chunk shorter *)
(* than three bytes raises IndexError on data[1] or data[2].  The chunk    *)
(* stays in the buffer either way.                                         *)
(***************************************************************************)
ProtocolDataReceived(buf, data) ==
    LET st0 == [buf |-> buf \o data, out |-> <<>>, raised |-> "none"] IN
    IF /\ data[1] < SYSEX_START
       /\ HighNibble(data[1]) \in {ANALOG_MESSAGE, DIGITAL_MESSAGE}
    THEN [st0 EXCEPT !.raised = IF Len(data) < 3 THEN "IndexError" ELSE "TypeError"]
    ELSE SysexLoop(st0)

(***************************************************************************)
(* Python values.  A Pin attribute may hold an int, a list or a str,       *)
(* whatever the caller passed; a value carries its type.                   *)
(***************************************************************************)
PyInt(n) == [tag |-> "int", n |-> n, l |-> <<>>, s |-> ""]
PyList(l) == [tag |-> "list", n |-> 0, l |-> l, s |-> ""]
PyStr(s) == [tag |-> "str", n |-> 0, l |-> <<>>, s |-> s]

\* the pin kinds of const.py
ANALOG == "analog"
DIGITAL == "digital"

\* pin modes of const.py: the Firmata mode codes
CAPABILITY_DIGITAL_INPUT == 0
CAPABILITY_DIGITAL_OUTPUT == 1
ANALOG_INPUT == 2
PWM == 3
CAPABILITY_ANALOG_OUTPUT == 3

InputModes == {CAPABILITY_DIGITAL_INPUT, ANALOG_INPUT}

\* Pin._mode = None (pin.py:21), Pin.callback = None (pin.py:18)
NoMode == -1
NoCallback == "None"

\* Pin.__init__(self, board, id, type, capabilities) (pin.py:13-23)
Pin(id, type, capabilities) ==
    [id |-> id, type |-> type, capabilities |-> capabilities,
     value |-> 0, mode |-> NoMode, callback |-> NoCallback, reporting |-> FALSE]

(***************************************************************************)
(* The handshake's response handlers (board.py:178-213).                   *)
(***************************************************************************)
\* char_generator (board.py:14-20): the code points of the decoded string
RECURSIVE CharGenerator(_)
CharGenerator(data) ==
    IF data = <<>> THEN <<>>
    ELSE IF Len(data) = 1 THEN <<BitOr(0, data[1])>>
    ELSE <<BitOr(data[2] * 128, data[1])>> \o CharGenerator(DropFirst(data, 2))

\* handle_firmware_response: the new firmware, or the exception raised
HandleFirmwareResponse(data) ==
    IF Len(data) < 2
    THEN [raised |-> "IndexError", firmware |-> firmware]
    ELSE [raised |-> "none",
          firmware |-> [name |-> CharGenerator(DropFirst(data, 2)),
                        version |-> <<data[1], data[2]>>]]

\* handle_capability_response: the loop of lines 190-197 over data, from
\* position i with the local buffer buf; bytes after the last sentinel are
\* left in the local buffer and forgotten
RECURSIVE CapabilityLoop(_, _, _, _)
CapabilityLoop(data, i, buf, specs) ==
    IF i > Len(data) THEN specs
    ELSE IF data[i] = SYSEX_REALTIME
         THEN CapabilityLoop(data, i + 1, <<>>, Append(specs, buf))
         ELSE CapabilityLoop(data, i + 1, Append(buf, data[i]), specs)

HandleCapabilityResponse(specs, data) == CapabilityLoop(data, 1, <<>>, specs)

\* the two Pin(...) calls of handle_analog_mapping_response, arguments in the
\* order the code passes them: Pin(self, self._pin_specs[index], value, ANALOG)
\* and Pin(self, self._pin_specs[index], index, DIGITAL), bound by position
\* to the parameters (board, id, type, capabilities)
NewAnalogPin(spec, value) == Pin(PyList(spec), PyInt(value), PyStr(ANALOG))

NewDigitalPin(spec, index) == Pin(PyList(spec), PyInt(index), PyStr(DIGITAL))

\* handle_analog_mapping_response: enumerate(data) is 0-based, i is 1-based
RECURSIVE AnalogMappingLoop(_, _, _, _)
AnalogMappingLoop(specs, data, i, st) ==
    IF i > Len(data) THEN st
    ELSE IF i > Len(specs)
         THEN [st EXCEPT !.raised = "IndexError"]
         ELSE IF data[i] # SYSEX_REALTIME
              THEN AnalogMappingLoop(specs, data, i + 1,
                      [st EXCEPT !.analog = Append(@, NewAnalogPin(specs[i], data[i]))])
              ELSE AnalogMappingLoop(specs, data, i + 1,
                      [st EXCEPT !.digital = Append(@, NewDigitalPin(specs[i], i - 1))])

HandleAnalogMappingResponse(specs, data) ==
    AnalogMappingLoop(specs, data, 1,
                      [analog |-> <<>>, digital |-> <<>>, raised |-> "none"])

(***************************************************************************)
(* The handler registry (board.py:104, 215-216).  A handler is a bound     *)
(* method of the board (bound methods of one object compare equal, so the  *)
(* set holds each once) or a wrapper made by set_event around the response *)
(* handler of one fetch step of one run of setup (a new function object,   *)
(* and a new Event, per call).                                             *)
(***************************************************************************)
Commands == {SYSEX_STRING, PIN_STATE_RESPONSE, ANALOG_MESSAGE, DIGITAL_MESSAGE,
             SYSEX_FIRMWARE_INFO, CAPABILITY_RESPONSE, ANALOG_MAPPING_RESPONSE}

Method(name) == [f |-> name, run |-> 0, step |-> 0]

Wrapper(s, k) == [f |-> "set_event", run |-> s, step |-> k]

EmptyRegistry == [c \in Commands |-> {}]

add_command_handler(reg, command, handler) ==
    [reg EXCEPT ![command] = @ \cup {handler}]

\* the firmware before any response (Board.firmware = None, board.py:97)
NoFirmware == [name |-> <<>>, version |-> <<>>]

(***************************************************************************)
(* The state as one record, so that a coroutine's run from one suspension  *)
(* to the next is a function from state to state.  susp is the result of   *)
(* the latest SerialIO.write: whether it suspended.                        *)
(***************************************************************************)
Cur ==
    [writer |-> writer, registry |-> registry, boardReady |-> boardReady,
     firmware |-> firmware, pin_specs |-> pin_specs, analog |-> analog,
     digital |-> digital, lastError |-> lastError, revive |-> revive,
     alive |-> alive, connected |-> connected, buffers |-> buffers,
     deviceQ |-> deviceQ, mainPc |-> mainPc, setupPc |-> setupPc,
     setupCaller |-> setupCaller, events |-> events, revivePc |-> revivePc,
     waiters |-> waiters, loopq |-> loopq, wire |-> wire,
     appWrites |-> appWrites, hist |-> hist, susp |-> FALSE]

Assign(st) ==
    /\ writer' = st.writer
    /\ registry' = st.registry
    /\ boardReady' = st.boardReady
    /\ firmware' = st.firmware
    /\ pin_specs' = st.pin_specs
    /\ analog' = st.analog
    /\ digital' = st.digital
    /\ lastError' = st.lastError
    /\ revive' = st.revive
    /\ alive' = st.alive
    /\ connected' = st.connected
    /\ buffers' = st.buffers
    /\ deviceQ' = st.deviceQ
    /\ mainPc' = st.mainPc
    /\ setupPc' = st.setupPc
    /\ setupCaller' = st.setupCaller
    /\ events' = st.events
    /\ revivePc' = st.revivePc
    /\ waiters' = st.waiters
    /\ loopq' = st.loopq
    /\ wire' = st.wire
    /\ appWrites' = st.appWrites
    /\ hist' = st.hist

\* an entry of the event loop's ready queue
Item(t, f, a, b, data) == [t |-> t, f |-> f, a |-> a, b |-> b, data |-> data]

Enqueue(st, item) == [st EXCEPT !.loopq = Append(@, item)]

SetupOwner(s) == [kind |-> "setup", id |-> s]
AppOwner(n) == [kind |-> "app", id |-> n]

(***************************************************************************)
(* Writes (board.py:82-84, 218-222).                                       *)
(***************************************************************************)
Steps == 1..3

StepQuery(k) ==
    CASE k = 1 -> SYSEX_FIRMWARE_INFO
      [] k = 2 -> CAPABILITY_QUERY
      [] OTHER -> ANALOG_MAPPING_QUERY

StepResponse(k) ==
    CASE k = 1 -> SYSEX_FIRMWARE_INFO
      [] k = 2 -> CAPABILITY_RESPONSE
      [] OTHER -> ANALOG_MAPPING_RESPONSE

\* send_sysex_command(command) with no data
SysexPacket(command) == <<START_SYSEX, command, SYSEX_END>>

Queries == {SYSEX_FIRMWARE_INFO, CAPABILITY_QUERY, ANALOG_MAPPING_QUERY}

IsQuery(packet) ==
    Len(packet) >= 2 /\ packet[1] = START_SYSEX /\ packet[2] \in Queries

\* observation: when a run of setup writes a query, the wrapper it registered
\* for the response is in the registry
StepOfQuery(q) ==
    CASE q = SYSEX_FIRMWARE_INFO -> 1
      [] q = CAPABILITY_QUERY -> 2
      [] OTHER -> 3

Armed(reg, packet, owner) ==
    (owner.kind = "setup" /\ IsQuery(packet)) =>
        LET k == StepOfQuery(packet[2]) IN
        Wrapper(owner.id, k) \in reg[StepResponse(k)]

\* transport.write(packet) on SerialIO p; the device receives what is written
\* while the port is open
TransportWrite(st, p, packet, owner) ==
    [st EXCEPT
        !.wire = Append(@, [conn |-> p, packet |-> packet, by |-> owner,
                            up |-> st.alive[p], gate |-> st.connected[p],
                            armed |-> Armed(st.registry, packet, owner)]),
        !.deviceQ[p] = IF st.alive[p] /\ IsQuery(packet) THEN Append(@, packet[2]) ELSE @,
        !.susp = FALSE]

\* a write that does not wait for the gate
WriteWithoutGate(st, p, packet, owner) == TransportWrite(st, p, packet, owner)

\* SerialIO.write: await self._connected.wait() returns at once when the
\* Event is set, and suspends the caller otherwise
SerialIOWrite(st, p, packet, owner) ==
    IF st.connected[p]
    THEN TransportWrite(st, p, packet, owner)
    ELSE [st EXCEPT
            !.waiters = Append(@, [gate |-> p, packet |-> packet, owner |-> owner]),
            !.susp = TRUE]

(***************************************************************************)
(* Board.setup and the three fetch steps (board.py:111-122, 172-203).      *)
(* Step k is 1 firmware-info, 2 capabilities, 3 analog mapping.            *)
(***************************************************************************)
Done == [k |-> 0, at |-> "done"]

\* await <event>.wait() lets the caller go on exactly when the Event is set
EventWaitSkipped(evs, k) == TRUE

EventWait(evs, k) == k \in evs

\* lines 121-122, and the return to the caller of setup: the application, or
\* the revive loop, which leaves its while loop (board.py:257)
SetupEnd(s, st) ==
    LET st1 == [st EXCEPT
                  !.boardReady = TRUE,
                  !.hist.atReady = [pin_specs |-> st.pin_specs, analog |-> st.analog,
                                    digital |-> st.digital],
                  !.hist.readyCount[s] = @ + 1,
                  !.hist.onReady[s] = @ + 1,
                  !.setupPc[s] = Done]
    IN  IF st.setupCaller[s] = 0
        THEN [st1 EXCEPT !.mainPc = "done"]
        ELSE [st1 EXCEPT !.revivePc[st.setupCaller[s]] = "done"]

RECURSIVE FetchStart(_, _, _), FetchAwait(_, _, _)
\* fetch_*: register the wrapped handler, send the query, wait for the Event
FetchStart(s, k, st) ==
    LET st1 == [st EXCEPT !.registry =
                    add_command_handler(@, StepResponse(k), Wrapper(s, k))]
        st2 == SerialIOWrite(st1, st1.writer, SysexPacket(StepQuery(k)), SetupOwner(s))
    IN  IF st2.susp
        THEN [st2 EXCEPT !.setupPc[s] = [k |-> k, at |-> "write"]]
        ELSE FetchAwait(s, k, st2)

FetchAwait(s, k, st) ==
    IF EventWait(st.events[s], k)
    THEN IF k < 3 THEN FetchStart(s, k + 1, st) ELSE SetupEnd(s, st)
    ELSE [st EXCEPT !.setupPc[s] = [k |-> k, at |-> "wait"]]

\* Board.__init__ (board.py:104): a new, empty registry
KeepRegistry(reg) == reg

NewRegistry(reg) == EmptyRegistry

\* Board.setup, lines 112-115
BaseHandlers(reg) ==
    add_command_handler(
      add_command_handler(
        add_command_handler(
          add_command_handler(reg, SYSEX_STRING, Method("handle_string_message")),
          PIN_STATE_RESPONSE, Method("handle_pin_state")),
        ANALOG_MESSAGE, Method("handle_analog_message")),
      DIGITAL_MESSAGE, Method("handle_digital_message"))

\* SerialBoard.setup (board.py:244-247) once create_serial_connection has
\* returned: a new SerialIO p (its connection_made is called by the loop
\* later), Board.__init__, then Board.setup up to its first suspension
StartSetup(caller, st) ==
    LET p == Len(st.alive) + 1
        s == Len(st.setupPc) + 1
        st1 == [st EXCEPT
                  !.alive = Append(@, TRUE),
                  !.connected = Append(@, FALSE),
                  !.buffers = Append(@, <<>>),
                  !.deviceQ = Append(@, <<>>),
                  !.loopq = Append(@, Item("made", "", p, 0, <<>>)),
                  !.registry = BaseHandlers(NewRegistry(@)),
                  !.boardReady = FALSE,
                  !.pin_specs = <<>>,
                  !.writer = p,
                  !.setupPc = Append(@, [k |-> 1, at |-> "start"]),
                  !.setupCaller = Append(@, caller),
                  !.events = Append(@, {}),
                  !.hist.processed = Append(@, {}),
                  !.hist.readyCount = Append(@, 0),
                  !.hist.onReady = Append(@, 0)]
    IN  FetchStart(s, 1, st1)

(***************************************************************************)
(* What the event loop runs: the protocol callbacks of SerialIO, the tasks *)
(* made by ensure_future and the wake-ups of suspended coroutines.         *)
(***************************************************************************)
RECURSIVE WakeWaiters(_, _, _)
\* Event.set(): every waiter of the Event is made runnable, in waiting order
WakeWaiters(ws, p, st) ==
    IF ws = <<>> THEN st
    ELSE LET w == Head(ws) IN
         IF w.gate = p
         THEN WakeWaiters(Tail(ws), p,
                Enqueue(st, Item("write_resume", w.owner.kind, w.owner.id, p, w.packet)))
         ELSE WakeWaiters(Tail(ws), p, [st EXCEPT !.waiters = Append(@, w)])

\* SerialIO.connection_made (board.py:40-43)
ConnectionMade(p, st) ==
    WakeWaiters(st.waiters, p,
        [st EXCEPT !.connected[p] = TRUE,
                   !.waiters = <<>>,
                   !.hist.onConnected = @ + 1])

\* SerialIO.connection_lost (board.py:70-74): SerialBoard has connection_lost
ConnectionLost(p, st) ==
    LET r == Len(st.revivePc) + 1 IN
    Enqueue([st EXCEPT !.connected[p] = FALSE,
                       !.revivePc = Append(@, "queued"),
                       !.hist.onConnectionLost = @ + 1],
            Item("revive_start", "", r, 0, <<>>))

\* SerialBoard.connection_lost up to asyncio.sleep(5) (board.py:249-252)
ReviveStart(r, st) ==
    [st EXCEPT !.revivePc[r] = IF st.revive THEN "sleep" ELSE "off"]

RECURSIVE EnqueueDispatches(_, _)
EnqueueDispatches(out, st) ==
    IF out = <<>> THEN st
    ELSE EnqueueDispatches(Tail(out),
            Enqueue(st, Item(Head(out).kind, "", Head(out).num, Head(out).value,
                             Head(out).data)))

\* SerialIO.data_received on SerialIO p
OnData(p, packet, st) ==
    LET r == DataReceived(st.buffers[p], st.boardReady, packet) IN
    EnqueueDispatches(r.out,
        [st EXCEPT !.buffers[p] = r.buf,
                   !.lastError = IF r.raised # "none" THEN r.raised ELSE @])

RECURSIVE Orderings(_)
Orderings(S) ==
    IF S = {} THEN {<<>>}
    ELSE UNION {{<<x>> \o t : t \in Orderings(S \ {x})} : x \in S}

\* handler(*data) binds the bytes of data to the handler's parameters when
\* it is called, before any coroutine exists: handle_pin_state(pin, mode,
\* *state), handle_analog_message(pin, value), handle_digital_message(pin,
\* value); handle_string_message, the wrappers of set_event and the response
\* handlers behind them take *data
Accepts(handler, data) ==
    CASE handler.f = "handle_pin_state" -> Len(data) >= 2
      [] handler.f \in {"handle_analog_message", "handle_digital_message"} ->
            Len(data) = 2
      [] OTHER -> TRUE

\* the loop of line 225-226 over the handlers in iteration order hs; a call
\* the handler does not accept raises TypeError out of handle_sysex_command
RECURSIVE EnqueueHandlers(_, _, _)
EnqueueHandlers(hs, data, st) ==
    IF hs = <<>> THEN st
    ELSE IF ~Accepts(Head(hs), data) THEN [st EXCEPT !.lastError = "TypeError"]
    ELSE EnqueueHandlers(Tail(hs), data,
            Enqueue(st, Item("handler", Head(hs).f, Head(hs).run, Head(hs).step, data)))

\* a dispatcher that runs the handlers of every command
HandlersOfAll(reg, command) == UNION {reg[c] : c \in Commands}

\* the handlers of a command: _cmd_handlers is a defaultdict(set)
HandlersOf(reg, command) == IF command \in Commands THEN reg[command] ELSE {}

\* Board.handle_sysex_command (board.py:224-226); order is the order in which
\* the set is iterated
HandleSysexCommand(command, data, order, st) == EnqueueHandlers(order, data, st)

\* the wrapper of set_event (board.py:22-28) around the response handler of
\* step k of run s: the handler, then async_event.set(); an exception of the
\* handler leaves the Event clear
RunWrapper(s, k, data, st) ==
    LET done ==
          CASE k = 1 ->
                 LET r == HandleFirmwareResponse(data) IN
                 [st EXCEPT !.firmware = r.firmware, !.lastError =
                     IF r.raised # "none" THEN r.raised ELSE @, !.susp = r.raised # "none"]
            [] k = 2 ->
                 [st EXCEPT !.pin_specs = HandleCapabilityResponse(@, data),
                            !.susp = FALSE]
            [] OTHER ->
                 LET r == HandleAnalogMappingResponse(st.pin_specs, data) IN
                 [st EXCEPT !.analog = r.analog, !.digital = r.digital, !.lastError =
                     IF r.raised # "none" THEN r.raised ELSE @, !.susp = r.raised # "none"]
    IN  IF done.susp
        THEN [done EXCEPT !.susp = FALSE]
        ELSE LET st1 == [done EXCEPT !.hist.processed[s] = @ \cup {k},
                                     !.events[s] = @ \cup {k}]
             IN  IF k \notin st.events[s] /\ st.setupPc[s] = [k |-> k, at |-> "wait"]
                 THEN Enqueue(st1, Item("setup_resume", "", s, 0, <<>>))
                 ELSE st1

\* a bound method called as a SysEx handler; handle_string_message raises
\* FirmataException (board.py:169-170)
RunMethod(name, data, st) ==
    IF name = "handle_string_message"
    THEN [st EXCEPT !.lastError = "FirmataException"]
    ELSE st

\* Board.handle_analog_message / handle_digital_message (board.py:161-167) on
\* the list pins (self.analog or self.digital): the list afterwards and the
\* exception raised.  Pin (pin.py) has neither _update_analog nor
\* _update_digital, so the call on pins[pin] raises and no pin changes.
DirectMessageOutcome(pins, pin, value) ==
    [pins |-> pins, raised |-> IF pin < Len(pins) THEN "AttributeError" ELSE "none"]

HandleDirectMessage(kind, pin, value, st) ==
    LET r == DirectMessageOutcome(IF kind = "analog" THEN st.analog ELSE st.digital,
                                  pin, value)
    IN  [st EXCEPT !.analog = IF kind = "analog" THEN r.pins ELSE @,
                   !.digital = IF kind = "digital" THEN r.pins ELSE @,
                   !.lastError = IF r.raised # "none" THEN r.raised ELSE @]

\* SerialIO.write resumed after _connected.wait(): transport.write, then the
\* caller goes on
WriteResume(owner, p, packet, st) ==
    LET st1 == TransportWrite(st, p, packet, owner) IN
    IF owner.kind = "setup"
    THEN FetchAwait(owner.id, st.setupPc[owner.id].k, st1)
    ELSE [st1 EXCEPT !.appWrites[owner.id].state = "sent"]

\* a fetch step resumed after its Event was set
SetupResume(s, st) ==
    LET k == st.setupPc[s].k IN
    IF k < 3 THEN FetchStart(s, k + 1, st) ELSE SetupEnd(s, st)

\* Board.close (board.py:228-230): line 229 reads self.board, which no Board
\* has, so the call raises before on_close is scheduled and before line 230
BoardClose(st) ==
    [st EXCEPT !.lastError = "AttributeError",
               !.hist.closeCalled = TRUE,
               !.hist.readyAfterClose = st.boardReady]

(***************************************************************************)
(* Initial states: a SerialBoard that was constructed and not yet set up.  *)
(***************************************************************************)
BoardIdle ==
    /\ writer = 0
    /\ registry = EmptyRegistry
    /\ boardReady = FALSE
    /\ firmware = NoFirmware
    /\ pin_specs = <<>>
    /\ analog = <<>>
    /\ digital = <<>>
    /\ lastError = "none"

NoHistory ==
    [processed |-> <<>>, readyCount |-> <<>>, onReady |-> <<>>, onConnected |-> 0,
     onConnectionLost |-> 0, onClose |-> 0, lost |-> 0, spurious |-> 0,
     fails |-> 0, closeCalled |-> FALSE, readyAfterClose |-> FALSE,
     atReady |-> [pin_specs |-> <<>>, analog |-> <<>>, digital |-> <<>>]]

LoopIdle ==
    /\ alive = <<>>
    /\ connected = <<>>
    /\ buffers = <<>>
    /\ deviceQ = <<>>
    /\ mainPc = "idle"
    /\ setupPc = <<>>
    /\ setupCaller = <<>>
    /\ events = <<>>
    /\ revivePc = <<>>
    /\ waiters = <<>>
    /\ loopq = <<>>
    /\ wire = <<>>
    /\ appWrites = <<>>
    /\ hist = NoHistory

NoOp ==
    [op |-> "none", list |-> "", pos |-> 0, mode |-> NoMode, raised |-> "none",
     modeBefore |-> NoMode, modeAfter |-> NoMode, sent |-> <<>>,
     old |-> 0, new |-> 0, cb |-> NoCallback, nsched |-> 0,
     num |-> 0, converted |-> 0,
     port |-> 0, mask |-> 0, before |-> <<>>]

NoObs ==
    [mapped |-> FALSE, mapData |-> <<>>, mapSpecs |-> <<>>,
     asked |-> [analog |-> <<>>, digital |-> <<>>],
     registered |-> [analog |-> <<>>, digital |-> <<>>]]

PinsIdle ==
    /\ scheduled = <<>>
    /\ lastRun = [ran |-> FALSE, cb |-> NoCallback, latest |-> NoCallback, value |-> 0]
    /\ lastOp = NoOp
    /\ obs = NoObs

NoDecObs == [early |-> 0, earlyDirect |-> FALSE, stale |-> FALSE]

ProtocolIdle == [buf |-> <<>>, out |-> <<>>, raised |-> "none"]

NoDispatch ==
    [done |-> FALSE, command |-> 0, data |-> <<>>, registered |-> {},
     order |-> <<>>, scheduled |-> <<>>, raised |-> "none"]

DecIdle ==
    /\ decReady = FALSE
    /\ decDelivered = <<>>
    /\ decBuffer = <<>>
    /\ decOut = <<>>
    /\ decRaised = "none"
    /\ decObs = NoDecObs
    /\ proto = ProtocolIdle
    /\ lastDispatch = NoDispatch

(***************************************************************************)
(* The device: it answers each query once, and may send frames unasked.    *)
(***************************************************************************)
Frame(command, payload) == <<START_SYSEX, command>> \o payload \o <<SYSEX_END>>

\* version 2.5, name "A"
FirmwarePayload == <<2, 5, 65, 0>>

\* pin index 0: modes 0 and 1 (1 bit); pin index 1: mode 2 (10 bits)
CapabilityPayload == <<0, 1, 1, 1, SYSEX_REALTIME, 2, 10, SYSEX_REALTIME>>

\* pin index 0 is digital, pin index 1 is analog channel 0
MappingPayload == <<SYSEX_REALTIME, 0>>

ResponseTo(query) ==
    CASE query = SYSEX_FIRMWARE_INFO -> Frame(SYSEX_FIRMWARE_INFO, FirmwarePayload)
      [] query = CAPABILITY_QUERY -> Frame(CAPABILITY_RESPONSE, CapabilityPayload)
      [] OTHER -> Frame(ANALOG_MAPPING_RESPONSE, MappingPayload)

\* port 0, mask 0b00000101
DigitalPortMessage == <<DIGITAL_MESSAGE, 5, 0>>

Unasked == {ResponseTo(q) : q \in Queries} \cup {DigitalPortMessage}

\* what the application writes with send_data: a set-pin-mode command
AppPacket == <<SET_PIN_MODE, 0, 1>>

(***************************************************************************)
(* Spec: the actions.                                                      *)
(***************************************************************************)
\* the events counted against MaxEvents so far
EventsUsed ==
    hist.lost + hist.spurious + hist.fails + Len(appWrites)
      + (IF hist.closeCalled THEN 1 ELSE 0)

\* every SerialIO but the first is made by a revive loop, one per disconnect
MaxConn == MaxEvents + 1

Init ==
    /\ DecIdle
    /\ BoardIdle
    /\ LoopIdle
    /\ PinsIdle
    /\ revive \in BOOLEAN

\* the application awaits SerialBoard.setup(); a SerialException of
\* create_serial_connection propagates to it
AppSetup(ok) ==
    /\ mainPc = "idle"
    /\ IF ok
       THEN Assign(StartSetup(0, [Cur EXCEPT !.mainPc = "in_setup"]))
       ELSE Assign([Cur EXCEPT !.mainPc = "failed", !.lastError = "SerialException"])
    /\ UNCHANGED <<decVars, pinVars>>

HeadIs(t) == loopq # <<>> /\ Head(loopq).t = t

Popped == [Cur EXCEPT !.loopq = Tail(@)]

LoopConnectionMade ==
    /\ HeadIs("made")
    /\ Assign(ConnectionMade(Head(loopq).a, Popped))
    /\ UNCHANGED <<decVars, pinVars>>

LoopConnectionLost ==
    /\ HeadIs("lost")
    /\ Assign(ConnectionLost(Head(loopq).a, Popped))
    /\ UNCHANGED <<decVars, pinVars>>

LoopReviveStart ==
    /\ HeadIs("revive_start")
    /\ Assign(ReviveStart(Head(loopq).a, Popped))
    /\ UNCHANGED <<decVars, pinVars>>

LoopDataReceived ==
    /\ HeadIs("data")
    /\ Assign(OnData(Head(loopq).a, Head(loopq).data, Popped))
    /\ UNCHANGED <<decVars, pinVars>>

LoopSysexCommand ==
    /\ HeadIs("sysex")
    /\ \E order \in Orderings(HandlersOf(registry, Head(loopq).a)) :
          Assign(HandleSysexCommand(Head(loopq).a, Head(loopq).data, order, Popped))
    /\ UNCHANGED <<decVars, pinVars>>

LoopHandler ==
    /\ HeadIs("handler")
    /\ LET h == Head(loopq) IN
       IF h.f = "set_event"
       THEN Assign(RunWrapper(h.a, h.b, h.data, Popped))
       ELSE Assign(RunMethod(h.f, h.data, Popped))
    /\ UNCHANGED <<decVars, pinVars>>

LoopDirectMessage ==
    /\ loopq # <<>>
    /\ Head(loopq).t \in {"analog", "digital"}
    /\ LET h == Head(loopq) IN
       Assign(HandleDirectMessage(h.t, h.a, h.b, Popped))
    /\ UNCHANGED <<decVars, pinVars>>

LoopWriteResume ==
    /\ HeadIs("write_resume")
    /\ LET h == Head(loopq) IN
       Assign(WriteResume([kind |-> h.f, id |-> h.a], h.b, h.data, Popped))
    /\ UNCHANGED <<decVars, pinVars>>

LoopSetupResume ==
    /\ HeadIs("setup_resume")
    /\ Assign(SetupResume(Head(loopq).a, Popped))
    /\ UNCHANGED <<decVars, pinVars>>

\* asyncio.sleep(5) is over, then self.setup() (board.py:252-257).  Five
\* seconds outlast whatever the ready queue holds: the timer is served by a
\* loop that has nothing ready.
ReviveAttempt(r, ok) ==
    /\ r \in 1..Len(revivePc)
    /\ revivePc[r] = "sleep"
    /\ loopq = <<>>
    /\ IF ok
       THEN /\ Len(alive) < MaxConn
            /\ Assign(StartSetup(r, [Cur EXCEPT !.revivePc[r] = "in_setup"]))
       ELSE /\ EventsUsed < MaxEvents
            /\ Assign([Cur EXCEPT !.hist.fails = @ + 1])
    /\ UNCHANGED <<decVars, pinVars>>

\* the serial port of SerialIO p fails: the loop will call connection_lost.
\* The transport finds the failure in its reader, which it starts after it
\* called connection_made.
Disconnect(p) ==
    /\ p \in 1..Len(alive)
    /\ alive[p]
    /\ connected[p]
    /\ EventsUsed < MaxEvents
    /\ Assign(Enqueue([Cur EXCEPT !.alive[p] = FALSE, !.hist.lost = @ + 1],
                      Item("lost", "", p, 0, <<>>)))
    /\ UNCHANGED <<decVars, pinVars>>

DeviceRespond(p) ==
    /\ p \in 1..Len(alive)
    /\ alive[p]
    /\ deviceQ[p] # <<>>
    /\ Assign(Enqueue([Cur EXCEPT !.deviceQ[p] = Tail(@)],
                      Item("data", "", p, 0, ResponseTo(Head(deviceQ[p])))))
    /\ UNCHANGED <<decVars, pinVars>>

DeviceUnasked(p, packet) ==
    /\ p \in 1..Len(alive)
    /\ alive[p]
    /\ EventsUsed < MaxEvents
    /\ Assign(Enqueue([Cur EXCEPT !.hist.spurious = @ + 1],
                      Item("data", "", p, 0, packet)))
    /\ UNCHANGED <<decVars, pinVars>>

\* the application awaits board.send_data(AppPacket) (board.py:221-222)
AppWrite ==
    /\ writer # 0
    /\ EventsUsed < MaxEvents
    /\ LET n == Len(appWrites) + 1
           st1 == [Cur EXCEPT !.appWrites = Append(@,
                      [gate |-> writer, down |-> ~connected[writer], state |-> "waiting"])]
           st2 == SerialIOWrite(st1, writer, AppPacket, AppOwner(n))
       IN  Assign(IF st2.susp THEN st2 ELSE [st2 EXCEPT !.appWrites[n].state = "sent"])
    /\ UNCHANGED <<decVars, pinVars>>

\* the application awaits board.close()
AppClose ==
    /\ writer # 0
    /\ ~hist.closeCalled
    /\ EventsUsed < MaxEvents
    /\ Assign(BoardClose(Cur))
    /\ UNCHANGED <<decVars, pinVars>>

Next ==
    \/ \E ok \in BOOLEAN : AppSetup(ok)
    \/ LoopConnectionMade
    \/ LoopConnectionLost
    \/ LoopReviveStart
    \/ LoopDataReceived
    \/ LoopSysexCommand
    \/ LoopHandler
    \/ LoopDirectMessage
    \/ LoopWriteResume
    \/ LoopSetupResume
    \/ \E r \in 1..MaxConn, ok \in BOOLEAN : ReviveAttempt(r, ok)
    \/ \E p \in 1..MaxConn : Disconnect(p)
    \/ \E p \in 1..MaxConn : DeviceRespond(p)
    \/ \E p \in 1..MaxConn, packet \in Unasked : DeviceUnasked(p, packet)
    \/ AppWrite
    \/ AppClose

Spec == Init /\ [][Next]_vars

(***************************************************************************)
(* Pin operations (pin.py).                                                *)
(***************************************************************************)
\* Pin.pin_mode (pin.py:56-68): the pin afterwards, the exception raised and
\* the bytes sent.  `mode not in self.capabilities` needs a container of
\* ints: on a str (or an int) it raises TypeError.  Board has no send_packet,
\* so line 67 raises before line 68 sets the mode.
PinMode(pin, mode) ==
    IF pin.capabilities.tag # "list"
    THEN [pin |-> pin, raised |-> "TypeError", sent |-> <<>>]
    ELSE IF ~Contains(pin.capabilities.l, mode)
         THEN [pin |-> pin, raised |-> "CapabilityNotAvailable", sent |-> <<>>]
         ELSE [pin |-> pin, raised |-> "AttributeError", sent |-> <<>>]

\* int(round(num / den * scale)) for num, den, scale >= 0: Python 3 rounds a
\* half to the even neighbour
Round(num, den, scale) ==
    LET q == (num * scale) \div den
        r2 == 2 * ((num * scale) % den)
    IN  IF r2 < den THEN q
        ELSE IF r2 > den THEN q + 1
        ELSE IF q % 2 = 0 THEN q ELSE q + 1

\* the values an application writes with analog_write, "ranging from 0 to 1":
\* num / ValueDen
ValueDen == 2

\* Pin.analog_write (pin.py:41-54) with value = num / ValueDen.  `PWM in
\* self.capabilities` raises TypeError unless capabilities is a container of
\* ints; line 46 indexes the flat (mode, resolution) list by the mode code;
\* Board has no send_packet, so line 48 raises before line 52 sets the value.
AnalogWrite(pin, num) ==
    IF pin.capabilities.tag # "list"
    THEN [pin |-> pin, raised |-> "TypeError", sent |-> <<>>, converted |-> 0]
    ELSE IF ~Contains(pin.capabilities.l, PWM)
         THEN [pin |-> pin, raised |-> "CapabilityNotAvailable", sent |-> <<>>,
               converted |-> 0]
         ELSE IF Len(pin.capabilities.l) <= CAPABILITY_ANALOG_OUTPUT
              THEN [pin |-> pin, raised |-> "IndexError", sent |-> <<>>,
                    converted |-> 0]
              ELSE [pin |-> pin, raised |-> "AttributeError", sent |-> <<>>,
                    converted |->
                        Round(num, ValueDen,
                              2 ^ pin.capabilities.l[CAPABILITY_ANALOG_OUTPUT + 1] - 1)]

\* Pin.digital_write (pin.py:29-39) with value True (1) or False (0).  The
\* membership tests need a container of ints; line 34 sets the value through
\* the setter and line 35 raises, Board having no send_packet.
DigitalWrite(pin, value) ==
    IF pin.capabilities.tag # "list"
    THEN [pin |-> pin, raised |-> "TypeError", sent |-> <<>>]
    ELSE IF Contains(pin.capabilities.l, CAPABILITY_DIGITAL_OUTPUT)
         THEN [pin |-> [pin EXCEPT !.value = value], raised |-> "AttributeError",
               sent |-> <<>>]
         ELSE IF Contains(pin.capabilities.l, CAPABILITY_ANALOG_OUTPUT)
              THEN [pin |-> pin, raised |-> AnalogWrite(pin, ValueDen).raised,
                    sent |-> <<>>]
              ELSE [pin |-> pin, raised |-> "CapabilityNotAvailable", sent |-> <<>>]

\* the callbacks an application registers: a plain function or a coroutine
\* function (asyncio.iscoroutinefunction, pin.py:97)
Callbacks == {"f", "co"}

IsCoroutineFunction(cb) == cb = "co"

\* old_val != self._value (pin.py:96)
AlwaysChanged(old, new) == TRUE

ValueChanged(old, new) == old # new

\* the setter of Pin.value (pin.py:88-101): the pin afterwards and what it
\* schedules.  A coroutine function is called at once and its coroutine
\* scheduled; a plain function is wrapped in a lambda that reads
\* self.callback when the executor runs it.
ValueSetter(pin, list, pos, value) ==
    LET old_val == pin.value IN
    [pin |-> [pin EXCEPT !.value = value],
     sched |-> IF pin.callback # NoCallback /\ ValueChanged(old_val, value)
               THEN <<[late |-> ~IsCoroutineFunction(pin.callback),
                       cb |-> IF IsCoroutineFunction(pin.callback)
                              THEN pin.callback ELSE NoCallback,
                       list |-> list, pos |-> pos, value |-> value]>>
               ELSE <<>>]

\* Pin.set_callback (pin.py:103-108)
SetCallback(pin, callback) == [pin EXCEPT !.callback = callback]

(***************************************************************************)
(* SpecPins: the negotiation handlers run on the device's responses, then  *)
(* the application uses the pins and the device reports port values.       *)
(***************************************************************************)
Lists == {"analog", "digital"}

PinList(list) == IF list = "analog" THEN analog ELSE digital

\* (mode, resolution) pairs one pin may advertise
PinCaps == {<<>>, <<CAPABILITY_DIGITAL_INPUT, 1>>,
            <<CAPABILITY_DIGITAL_INPUT, 1, CAPABILITY_DIGITAL_OUTPUT, 1>>,
            <<ANALOG_INPUT, 10>>,
            <<CAPABILITY_DIGITAL_OUTPUT, 1, PWM, 8>>}

RECURSIVE CapPayloadsOf(_)
CapPayloadsOf(n) ==
    IF n = 0 THEN {<<>>}
    ELSE {c \o <<SYSEX_REALTIME>> \o rest : c \in PinCaps, rest \in CapPayloadsOf(n - 1)}

CapPayloads == UNION {CapPayloadsOf(n) : n \in 1..MaxPins}

MapPayloads == UNION {[1..n -> {SYSEX_REALTIME, 0, 1}] : n \in 1..MaxPins}

Modes == {CAPABILITY_DIGITAL_INPUT, CAPABILITY_DIGITAL_OUTPUT, ANALOG_INPUT}

\* the device's pin indices (1-based positions of the mapping response) that
\* became the pins of a list, in list order
IndicesOf(list, data, specs) ==
    SelectSeq([i \in 1..Len(data) |-> i],
              LAMBDA i : i <= Len(specs)
                         /\ ((list = "digital") <=> (data[i] = SYSEX_REALTIME)))

\* the modes among the (mode, resolution) pairs of a capability list
AdvertisedModes(spec) == {spec[2 * j - 1] : j \in 1..((Len(spec) + 1) \div 2)}

\* the modes the device advertised for the pin at pos of list
AdvertisedFor(list, pos) ==
    AdvertisedModes(obs.mapSpecs[IndicesOf(list, obs.mapData, obs.mapSpecs)[pos]])

PinsInit ==
    /\ DecIdle
    /\ BoardIdle
    /\ LoopIdle
    /\ PinsIdle
    /\ revive = FALSE

\* the capability response handler runs
PinsCapability(data) ==
    /\ Len(HandleCapabilityResponse(pin_specs, data)) <= MaxPins
    /\ pin_specs' = HandleCapabilityResponse(pin_specs, data)
    /\ UNCHANGED <<writer, registry, boardReady, firmware, analog, digital, lastError>>
    /\ UNCHANGED <<decVars, loopVars, pinVars>>

\* the analog mapping response handler runs: the pins are new objects, and a
\* lambda scheduled for an old pin keeps that pin's callback
PinsMapping(data) ==
    /\ LET r == HandleAnalogMappingResponse(pin_specs, data) IN
        /\ analog' = r.analog
        /\ digital' = r.digital
        /\ lastError' = IF r.raised # "none" THEN r.raised ELSE lastError
        /\ obs' = [mapped |-> TRUE, mapData |-> data, mapSpecs |-> pin_specs,
                   asked |-> [analog |-> [i \in 1..Len(r.analog) |-> NoMode],
                              digital |-> [i \in 1..Len(r.digital) |-> NoMode]],
                   registered |-> [analog |-> [i \in 1..Len(r.analog) |-> NoCallback],
                                   digital |-> [i \in 1..Len(r.digital) |-> NoCallback]]]
    /\ scheduled' = [i \in 1..Len(scheduled) |->
                        IF scheduled[i].late
                        THEN [scheduled[i] EXCEPT
                                !.late = FALSE,
                                !.cb = PinList(scheduled[i].list)[scheduled[i].pos].callback,
                                !.reg = obs.registered[scheduled[i].list][scheduled[i].pos]]
                        ELSE scheduled[i]]
    /\ lastOp' = NoOp
    /\ UNCHANGED <<writer, registry, boardReady, firmware, pin_specs>>
    /\ UNCHANGED <<decVars, loopVars, lastRun>>

PutPin(list, pos, pin) ==
    /\ analog' = IF list = "analog" THEN [analog EXCEPT ![pos] = pin] ELSE analog
    /\ digital' = IF list = "digital" THEN [digital EXCEPT ![pos] = pin] ELSE digital

\* the application awaits pin.pin_mode(mode)
PinsPinMode(list, pos, mode) ==
    /\ pos \in 1..Len(PinList(list))
    /\ LET pin == PinList(list)[pos]
           r == PinMode(pin, mode)
       IN  /\ PutPin(list, pos, r.pin)
           /\ lastError' = IF r.raised # "none" THEN r.raised ELSE lastError
           /\ lastOp' = [NoOp EXCEPT !.op = "pin_mode", !.list = list, !.pos = pos,
                                     !.mode = mode, !.raised = r.raised,
                                     !.modeBefore = pin.mode, !.modeAfter = r.pin.mode,
                                     !.sent = r.sent]
           /\ obs' = IF mode \in AdvertisedFor(list, pos)
                     THEN [obs EXCEPT !.asked[list][pos] = mode]
                     ELSE obs
    /\ UNCHANGED <<writer, registry, boardReady, firmware, pin_specs>>
    /\ UNCHANGED <<decVars, loopVars, scheduled, lastRun>>

\* the application awaits pin.digital_write(value)
PinsDigitalWrite(list, pos, value) ==
    /\ pos \in 1..Len(PinList(list))
    /\ LET pin == PinList(list)[pos]
           r == DigitalWrite(pin, value)
       IN  /\ PutPin(list, pos, r.pin)
           /\ lastError' = IF r.raised # "none" THEN r.raised ELSE lastError
           /\ lastOp' = [NoOp EXCEPT !.op = "digital_write", !.list = list,
                                     !.pos = pos, !.raised = r.raised,
                                     !.old = pin.value, !.new = r.pin.value,
                                     !.num = value, !.sent = r.sent]
    /\ UNCHANGED <<writer, registry, boardReady, firmware, pin_specs>>
    /\ UNCHANGED <<decVars, loopVars, scheduled, lastRun, obs>>

\* the application awaits pin.analog_write(num / ValueDen)
PinsAnalogWrite(list, pos, num) ==
    /\ pos \in 1..Len(PinList(list))
    /\ LET pin == PinList(list)[pos]
           r == AnalogWrite(pin, num)
       IN  /\ PutPin(list, pos, r.pin)
           /\ lastError' = IF r.raised # "none" THEN r.raised ELSE lastError
           /\ lastOp' = [NoOp EXCEPT !.op = "analog_write", !.list = list,
                                     !.pos = pos, !.raised = r.raised,
                                     !.old = pin.value, !.new = r.pin.value,
                                     !.num = num, !.converted = r.converted,
                                     !.sent = r.sent]
    /\ UNCHANGED <<writer, registry, boardReady, firmware, pin_specs>>
    /\ UNCHANGED <<decVars, loopVars, scheduled, lastRun, obs>>

\* the application calls pin.set_callback(callback)
PinsSetCallback(list, pos, callback) ==
    /\ pos \in 1..Len(PinList(list))
    /\ PutPin(list, pos, SetCallback(PinList(list)[pos], callback))
    /\ obs' = [obs EXCEPT !.registered[list][pos] = callback]
    /\ UNCHANGED <<writer, registry, boardReady, firmware, pin_specs, lastError>>
    /\ UNCHANGED <<decVars, loopVars, scheduled, lastRun, lastOp>>

\* pin.value = value
PinsSetValue(list, pos, value) ==
    /\ pos \in 1..Len(PinList(list))
    /\ Len(scheduled) < MaxSched
    /\ LET pin == PinList(list)[pos]
           r == ValueSetter(pin, list, pos, value)
       IN  /\ PutPin(list, pos, r.pin)
           /\ scheduled' = scheduled \o
                  [i \in 1..Len(r.sched) |->
                     [late |-> r.sched[i].late, cb |-> r.sched[i].cb,
                      list |-> list, pos |-> pos, value |-> r.sched[i].value,
                      reg |-> obs.registered[list][pos]]]
           /\ lastOp' = [NoOp EXCEPT !.op = "set_value",
                                     !.old = pin.value, !.new = value,
                                     !.cb = obs.registered[list][pos],
                                     !.nsched = Len(r.sched)]
    /\ UNCHANGED <<writer, registry, boardReady, firmware, pin_specs, lastError>>
    /\ UNCHANGED <<decVars, loopVars, lastRun, obs>>

\* the loop runs a scheduled coroutine, or the executor a scheduled lambda
PinsRunCallback ==
    /\ scheduled # <<>>
    /\ LET e == Head(scheduled)
           used == IF e.late THEN PinList(e.list)[e.pos].callback ELSE e.cb
           latest == IF e.late THEN obs.registered[e.list][e.pos] ELSE e.reg
       IN  /\ lastRun' = [ran |-> TRUE, cb |-> used, latest |-> latest, value |-> e.value]
           /\ lastError' = IF used = NoCallback THEN "TypeError" ELSE lastError
    /\ scheduled' = Tail(scheduled)
    /\ UNCHANGED <<writer, registry, boardReady, firmware, pin_specs, analog, digital>>
    /\ UNCHANGED <<decVars, loopVars, lastOp, obs>>

\* the task of Board.handle_digital_message(port, mask) runs
PinsDigitalMessage(port, mask) ==
    /\ obs.mapped
    /\ LET r == DirectMessageOutcome(digital, port, mask) IN
        /\ digital' = r.pins
        /\ lastError' = IF r.raised # "none" THEN r.raised ELSE lastError
        /\ lastOp' = [NoOp EXCEPT !.op = "digital_message", !.port = port,
                                  !.mask = mask, !.raised = r.raised,
                                  !.before = digital]
    /\ UNCHANGED <<writer, registry, boardReady, firmware, pin_specs, analog>>
    /\ UNCHANGED <<decVars, loopVars, scheduled, lastRun, obs>>

PortMasks == {0, 2, 5}

PinsNext ==
    \/ \E data \in CapPayloads : PinsCapability(data)
    \/ \E data \in MapPayloads : PinsMapping(data)
    \/ \E list \in Lists, pos \in 1..MaxPins, mode \in Modes : PinsPinMode(list, pos, mode)
    \/ \E mask \in PortMasks : PinsDigitalMessage(0, mask)
    \/ \E list \in Lists, pos \in 1..MaxPins, value \in 0..1 :
          PinsDigitalWrite(list, pos, value)
    \/ \E list \in Lists, pos \in 1..MaxPins, num \in 0..ValueDen :
          PinsAnalogWrite(list, pos, num)

SpecPins == PinsInit /\ [][PinsNext]_vars

(***************************************************************************)
(* SpecValues: after one negotiation with the device of Spec, the          *)
(* application registers callbacks and values are set.                     *)
(***************************************************************************)
ValuesCapability ==
    /\ pin_specs = <<>>
    /\ PinsCapability(CapabilityPayload)

ValuesMapping ==
    /\ pin_specs # <<>>
    /\ ~obs.mapped
    /\ PinsMapping(MappingPayload)

ValuesNext ==
    \/ ValuesCapability
    \/ ValuesMapping
    \/ \E list \in Lists, pos \in 1..MaxPins, cb \in Callbacks \cup {NoCallback} :
          PinsSetCallback(list, pos, cb)
    \/ \E list \in Lists, pos \in 1..MaxPins, value \in 0..MaxValue :
          PinsSetValue(list, pos, value)
    \/ PinsRunCallback

SpecValues == PinsInit /\ [][ValuesNext]_vars

(***************************************************************************)
(* SpecDecoder: the transport delivers a byte stream in chunks.            *)
(***************************************************************************)
DecBytes == {ANALOG_MESSAGE, DIGITAL_MESSAGE + 1, 5, START_SYSEX, SYSEX_END}

Chunks == UNION {[1..n -> DecBytes] : n \in 1..MaxChunk}

DecInit ==
    /\ decReady \in BOOLEAN
    /\ decDelivered = <<>>
    /\ decBuffer = <<>>
    /\ decOut = <<>>
    /\ decRaised = "none"
    /\ decObs = NoDecObs
    /\ proto = ProtocolIdle
    /\ lastDispatch = NoDispatch
    /\ BoardIdle
    /\ LoopIdle
    /\ PinsIdle
    /\ revive = FALSE

DecDeliver(packet) ==
    /\ Len(decDelivered) + Len(packet) <= MaxStream
    /\ LET r == DataReceived(decBuffer, decReady, packet) IN
        /\ decBuffer' = r.buf
        /\ decOut' = decOut \o r.out
        /\ decRaised' = IF r.raised # "none" THEN r.raised ELSE decRaised
    /\ LET q == ProtocolDataReceived(proto.buf, packet) IN
        proto' = [buf |-> q.buf, out |-> proto.out \o q.out,
                  raised |-> IF q.raised # "none" THEN q.raised ELSE proto.raised]
    /\ decDelivered' = decDelivered \o packet
    /\ UNCHANGED <<decReady, decObs, lastDispatch, boardVars, loopVars, pinVars>>

DecNext == \E packet \in Chunks : DecDeliver(packet)

SpecDecoder == DecInit /\ [][DecNext]_vars

(***************************************************************************)
(* SpecDispatch: a board whose setup has registered the base handlers      *)
(* (board.py:112-115); the application registers handlers, frames are      *)
(* dispatched by handle_sysex_command and the scheduled handlers run.      *)
(* app_handler is a coroutine function of the application taking *data.    *)
(***************************************************************************)
DispCodes == {SYSEX_STRING, PIN_STATE_RESPONSE, CAPABILITY_RESPONSE}

DispHandlers ==
    {Method("handle_string_message"), Method("handle_pin_state"),
     Method("app_handler")}

DispData == {<<>>, <<5>>, <<5, 1>>}

DispInit ==
    /\ DecIdle
    /\ writer = 0
    /\ registry = BaseHandlers(EmptyRegistry)
    /\ boardReady = FALSE
    /\ firmware = NoFirmware
    /\ pin_specs = <<>>
    /\ analog = <<>>
    /\ digital = <<>>
    /\ lastError = "none"
    /\ LoopIdle
    /\ PinsIdle
    /\ revive = FALSE

\* board.add_command_handler(command, handler)
DispAdd(command, handler) ==
    /\ registry' = add_command_handler(registry, command, handler)
    /\ UNCHANGED <<writer, boardReady, firmware, pin_specs, analog, digital,
                   lastError>>
    /\ UNCHANGED <<decVars, loopVars, pinVars>>

\* the task of handle_sysex_command(command, data) runs; order is the order
\* in which the set of handlers is iterated
DispDispatch(command, data) ==
    /\ loopq = <<>>
    /\ \E order \in Orderings(HandlersOf(registry, command)) :
         LET r == HandleSysexCommand(command, data, order,
                                     [Cur EXCEPT !.lastError = "none"])
         IN  /\ lastDispatch' =
                  [done |-> TRUE, command |-> command, data |-> data,
                   registered |-> registry[command], order |-> order,
                   scheduled |-> r.loopq, raised |-> r.lastError]
             /\ Assign([r EXCEPT !.lastError =
                                    IF @ = "none" THEN lastError ELSE @])
    /\ UNCHANGED <<decReady, decDelivered, decBuffer, decOut, decRaised, decObs,
                   proto>>
    /\ UNCHANGED pinVars

DispNext ==
    \/ \E command \in DispCodes, handler \in DispHandlers : DispAdd(command, handler)
    \/ \E command \in DispCodes, data \in DispData : DispDispatch(command, data)
    \/ LoopHandler

SpecDispatch == DispInit /\ [][DispNext]_vars

(***************************************************************************)
(* SpecGate: chunks arrive while the handshake is still running, the board *)
(* becomes ready (Board.setup, board.py:121), and chunks keep arriving.    *)
(* The buffer is always a suffix of the delivered stream (every deletion   *)
(* is made at its head), so a direct message decoded by a call starts at   *)
(* the stream position Len(decDelivered) - Len(decBuffer) + 1.             *)
(***************************************************************************)
IsDirect(d) == d.kind \in {"analog", "digital"}

GateInit ==
    /\ DecIdle
    /\ BoardIdle
    /\ LoopIdle
    /\ PinsIdle
    /\ revive = FALSE

GateDeliver(packet) ==
    /\ Len(decDelivered) + Len(packet) <= MaxGateStream
    /\ LET r == DataReceived(decBuffer, decReady, packet)
           direct == \E i \in 1..Len(r.out) : IsDirect(r.out[i])
       IN  /\ decBuffer' = r.buf
           /\ decOut' = decOut \o r.out
           /\ decRaised' = IF r.raised # "none" THEN r.raised ELSE decRaised
           /\ decObs' =
                [early |-> IF decReady THEN decObs.early
                           ELSE Len(decDelivered) + Len(packet),
                 earlyDirect |-> decObs.earlyDirect \/ (~decReady /\ direct),
                 stale |-> \/ decObs.stale
                           \/ direct /\ Len(decDelivered) - Len(decBuffer) < decObs.early]
    /\ LET q == ProtocolDataReceived(proto.buf, packet) IN
        proto' = [buf |-> q.buf, out |-> proto.out \o q.out,
                  raised |-> IF q.raised # "none" THEN q.raised ELSE proto.raised]
    /\ decDelivered' = decDelivered \o packet
    /\ UNCHANGED <<decReady, lastDispatch, boardVars, loopVars, pinVars>>

\* the handshake completes: self._ready.set()
GateReady ==
    /\ ~decReady
    /\ decReady' = TRUE
    /\ UNCHANGED <<decDelivered, decBuffer, decOut, decRaised, decObs, proto,
                   lastDispatch>>
    /\ UNCHANGED <<boardVars, loopVars, pinVars>>

GateNext ==
    \/ \E packet \in Chunks : GateDeliver(packet)
    \/ GateReady

SpecGate == GateInit /\ [][GateNext]_vars

\* what one delivery of the whole stream dispatches
WholeOut(stream) == DataReceived(<<>>, TRUE, stream).out

WholeRaised(stream) == DataReceived(<<>>, TRUE, stream).raised

(***************************************************************************)
(* C1: chunk-boundary invariance.  With the board ready, the dispatches    *)
(* made while the stream arrived in chunks are those made when the same    *)
(* stream arrives as one chunk (stated here for the streams on which no    *)
(* call of data_received raises, the others being the matter of C2).       *)
(***************************************************************************)
C1_ChunkInvariance ==
    (/\ decReady
     /\ decDelivered # <<>>
     /\ decRaised = "none"
     /\ WholeRaised(decDelivered) = "none") => decOut = WholeOut(decDelivered)

(***************************************************************************)
(* C2: data_received never raises, whatever the chunk and the buffer.      *)
(***************************************************************************)
C2_NeverRaises == decRaised = "none"

(***************************************************************************)
(* Claims about Spec.                                                      *)
(***************************************************************************)
Runs == 1..Len(setupPc)

\* the query codes run s has written, in order
QueriesOf(s) ==
    LET mine == SelectSeq(wire, LAMBDA w : w.by = SetupOwner(s) /\ IsQuery(w.packet))
    IN  [i \in 1..Len(mine) |-> mine[i].packet[2]]

IsPrefix(a, b) == Len(a) <= Len(b) /\ \A i \in 1..Len(a) : a[i] = b[i]

(***************************************************************************)
(* C3: handshake ordering.  Every run of setup writes its queries in the   *)
(* order firmware-info, capability, analog-mapping; it writes the          *)
(* capability query only after its firmware-info response was processed,   *)
(* the analog-mapping query only after its capability response was         *)
(* processed; it sets ready, and notifies on_ready, only after its         *)
(* analog-mapping response was processed; and the handler of each response *)
(* is in the registry when the query is written.                           *)
(***************************************************************************)
C3_HandshakeOrder ==
    \A s \in Runs :
        /\ IsPrefix(QueriesOf(s),
                    <<SYSEX_FIRMWARE_INFO, CAPABILITY_QUERY, ANALOG_MAPPING_QUERY>>)
        /\ Contains(QueriesOf(s), CAPABILITY_QUERY) => 1 \in hist.processed[s]
        /\ Contains(QueriesOf(s), ANALOG_MAPPING_QUERY) => 2 \in hist.processed[s]
        /\ hist.readyCount[s] > 0 => 3 \in hist.processed[s]
        /\ hist.onReady[s] > 0 => 3 \in hist.processed[s]
        /\ hist.onReady[s] <= hist.readyCount[s]
        /\ \A i \in 1..Len(wire) : wire[i].armed

\* a run of setup went through the three round trips and made the board ready
C3_Witness ==
    \E s \in Runs :
        /\ setupPc[s] = Done
        /\ Len(QueriesOf(s)) = 3
        /\ hist.processed[s] = Steps
        /\ boardReady

(***************************************************************************)
(* C5: reconnection.  With revive enabled, the revive loop started by a    *)
(* disconnect runs Board.setup at most once, exactly once when it has      *)
(* reconnected; when that loop has ended, its run of setup has set ready   *)
(* once and notified on_ready once, and no command code has more handlers  *)
(* than the one a first setup leaves it.                                   *)
(***************************************************************************)
RunsOf(r) == {s \in Runs : setupCaller[s] = r}

C5_Reconnect ==
    \A r \in 1..Len(revivePc) :
        /\ Cardinality(RunsOf(r)) <= 1
        /\ revivePc[r] \in {"in_setup", "done"} => Cardinality(RunsOf(r)) = 1
        /\ revivePc[r] = "done" =>
              /\ \A s \in RunsOf(r) : hist.readyCount[s] = 1 /\ hist.onReady[s] = 1
              /\ \A c \in Commands : Cardinality(registry[c]) <= 1

\* a disconnect after a completed first setup, and a revive loop that ended
C5_Witness ==
    \E r \in 1..Len(revivePc) :
        /\ revive
        /\ revivePc[r] = "done"
        /\ hist.readyCount[1] = 1
        /\ boardReady

(***************************************************************************)
(* C6: a write issued while the transport is disconnected does not fail    *)
(* and is not dropped; once the board's connection is up again and the     *)
(* loop has nothing left to run, its bytes have been written.              *)
(***************************************************************************)
C6_PendingWriteSent ==
    \A n \in 1..Len(appWrites) :
        appWrites[n].down =>
            /\ appWrites[n].state \in {"waiting", "sent"}
            /\ (connected[writer] /\ loopq = <<>>) => appWrites[n].state = "sent"

(***************************************************************************)
(* C10: after close() the board is not ready and on_close was notified.    *)
(***************************************************************************)
C10_CloseClearsReady ==
    hist.closeCalled => (~hist.readyAfterClose /\ hist.onClose > 0)

(***************************************************************************)
(* Claims about SpecPins and SpecValues.                                   *)
(***************************************************************************)
\* where the pin of device index i (1-based) stands in its list
PosOf(list, i) ==
    Cardinality({j \in 1..i : j <= Len(obs.mapSpecs)
                              /\ ((list = "digital") <=> (obs.mapData[j] = SYSEX_REALTIME))})

Bit(mask, k) == (mask \div (2 ^ k)) % 2

(***************************************************************************)
(* C4: capability gating of pin_mode.  For a mode the device did not       *)
(* advertise for the pin, pin_mode fails with CapabilityNotAvailable,      *)
(* leaves the mode and sends nothing; for an advertised mode it sends one  *)
(* set-mode command and sets the local mode.                               *)
(***************************************************************************)
C4_CapabilityGating ==
    lastOp.op = "pin_mode" =>
        IF lastOp.mode \notin AdvertisedFor(lastOp.list, lastOp.pos)
        THEN /\ lastOp.raised = "CapabilityNotAvailable"
             /\ lastOp.modeAfter = lastOp.modeBefore
             /\ lastOp.sent = <<>>
        ELSE /\ lastOp.raised = "none"
             /\ Len(lastOp.sent) = 3
             /\ lastOp.sent[1] = SET_PIN_MODE
             /\ lastOp.sent[3] = lastOp.mode
             /\ lastOp.modeAfter = lastOp.mode

(***************************************************************************)
(* C7: negotiation result.  After a capability response listing N pins and *)
(* an analog-mapping response of N bytes, pin index i is a pin of the      *)
(* digital list with id i when byte i is the sentinel, a pin of the analog *)
(* list with id byte i otherwise, and carries the capability list captured *)
(* for index i.                                                            *)
(***************************************************************************)
C7_Negotiation ==
    (obs.mapped /\ Len(obs.mapSpecs) = Len(obs.mapData)) =>
        \A i \in 1..Len(obs.mapData) :
            LET isDigital == obs.mapData[i] = SYSEX_REALTIME
                list == IF isDigital THEN "digital" ELSE "analog"
                pos == PosOf(list, i)
            IN  /\ pos \in 1..Len(PinList(list))
                /\ PinList(list)[pos].id = PyInt(IF isDigital THEN i - 1 ELSE obs.mapData[i])
                /\ PinList(list)[pos].capabilities = PyList(obs.mapSpecs[i])

(***************************************************************************)
(* C8: port fan-out.  After a digital-port message for port p with mask b, *)
(* each digital pin 8p+k that the application put in an input mode has the *)
(* value bit k of b, and every other digital pin of the port has the value *)
(* it had.                                                                 *)
(***************************************************************************)
C8_PortFanOut ==
    lastOp.op = "digital_message" =>
        \A k \in 0..7 :
            LET i == 8 * lastOp.port + k + 1 IN
            (i <= Len(obs.mapData) /\ i <= Len(obs.mapSpecs)
               /\ obs.mapData[i] = SYSEX_REALTIME) =>
                LET pos == PosOf("digital", i) IN
                IF \/ digital[pos].mode \in InputModes
                   \/ obs.asked["digital"][pos] \in InputModes
                THEN digital[pos].value = Bit(lastOp.mask, k)
                ELSE digital[pos].value = lastOp.before[pos].value

(***************************************************************************)
(* C9: idempotent value update.  Setting a pin's value schedules the       *)
(* change callback once when a callback is registered and the new value    *)
(* differs from the old one, and not at all otherwise; the callback run is *)
(* the one most recently registered on the pin: at the update for a        *)
(* coroutine function, which the setter calls at once, and at the run for  *)
(* a plain function, which the executor's lambda reads from the pin.       *)
(***************************************************************************)
C9_IdempotentUpdate ==
    /\ lastOp.op = "set_value" =>
          lastOp.nsched = IF lastOp.cb # NoCallback /\ lastOp.old # lastOp.new
                          THEN 1 ELSE 0
    /\ lastRun.ran => lastRun.cb = lastRun.latest

\* a callback has run after a change, and now a value equal to the current
\* one is set on a pin with a callback registered
C9_Witness ==
    /\ lastRun.ran
    /\ lastRun.cb # NoCallback
    /\ lastOp.op = "set_value"
    /\ lastOp.cb # NoCallback
    /\ lastOp.old = lastOp.new
    /\ lastOp.nsched = 0

(***************************************************************************)
(* C11: digital_write requires a digital-output capability.  On a pin for  *)
(* which the device advertised no digital-output mode, digital_write fails *)
(* with CapabilityNotAvailable, sends nothing and leaves the pin's value,  *)
(* for either value.                                                       *)
(***************************************************************************)
C11_DigitalWriteGating ==
    (/\ lastOp.op = "digital_write"
     /\ CAPABILITY_DIGITAL_OUTPUT \notin AdvertisedFor(lastOp.list, lastOp.pos)) =>
        /\ lastOp.raised = "CapabilityNotAvailable"
        /\ lastOp.sent = <<>>
        /\ lastOp.new = lastOp.old

\* the resolution the device advertised for a mode of the pin at pos of list
ResolutionFor(list, pos, mode) ==
    LET spec == obs.mapSpecs[IndicesOf(list, obs.mapData, obs.mapSpecs)[pos]]
        j == CHOOSE j \in 1..(Len(spec) \div 2) : spec[2 * j - 1] = mode
    IN  spec[2 * j]

(***************************************************************************)
(* C12: analog_write round trip.  On a pin with advertised analog-output   *)
(* resolution r, analog_write(v) emits the three bytes class + id, lsb,    *)
(* msb with lsb and msb in 0..127, and lsb | (msb << 7) is v quantized to  *)
(* r bits.                                                                 *)
(***************************************************************************)
C12_AnalogWriteRoundTrip ==
    (/\ lastOp.op = "analog_write"
     /\ PWM \in AdvertisedFor(lastOp.list, lastOp.pos)) =>
        /\ lastOp.raised = "none"
        /\ Len(lastOp.sent) = 3
        /\ lastOp.sent[1] \div 16 = ANALOG_MESSAGE \div 16
        /\ lastOp.sent[2] \in 0..127
        /\ lastOp.sent[3] \in 0..127
        /\ SplitValue(lastOp.sent[2], lastOp.sent[3]) =
              Round(lastOp.num, ValueDen,
                    2 ^ ResolutionFor(lastOp.list, lastOp.pos, PWM) - 1)

(***************************************************************************)
(* C13: ready implies connected.  Whenever the board reports ready, the    *)
(* SerialIO it writes to is connected.                                     *)
(***************************************************************************)
C13_ReadyImpliesConnected ==
    boardReady => (writer # 0 /\ connected[writer])

(***************************************************************************)
(* C14: once the board is ready, no inbound message changes the captured   *)
(* capability lists, the analog and digital pin lists or any pin of them:  *)
(* they are what they were when the board became ready.                    *)
(***************************************************************************)
C14_PinsFrozenAfterReady ==
    boardReady =>
        /\ pin_specs = hist.atReady.pin_specs
        /\ analog = hist.atReady.analog
        /\ digital = hist.atReady.digital

(***************************************************************************)
(* C17: at most one run of setup is in progress for the board at any time. *)
(***************************************************************************)
InProgress == {s \in Runs : setupPc[s] # Done}

C17_OneSetupAtATime == Cardinality(InProgress) <= 1

(***************************************************************************)
(* C18: transport.write is never invoked on a SerialIO whose connected     *)
(* gate is clear, a write resumed after the gate released it included.     *)
(***************************************************************************)
C18_WriteOnlyWhileConnected ==
    \A i \in 1..Len(wire) : wire[i].gate

\* after a disconnect, a write that had to wait for the gate of the SerialIO
\* of the reconnect was resumed and handed its bytes to the transport
C18_Witness ==
    \E i \in 1..Len(wire) :
        /\ wire[i].conn > 1
        /\ hist.lost > 0
        /\ ~connected[1]

(***************************************************************************)
(* Claims about the decoders, continued.                                   *)
(***************************************************************************)
\* the complete SysEx frames of a stream, in order: a start marker, a
\* command byte, payload bytes that are no markers, an end marker; start is
\* the position of the latest start marker not yet closed (0: none)
RECURSIVE ScanFrames(_, _, _)
ScanFrames(stream, i, start) ==
    IF i > Len(stream) THEN <<>>
    ELSE IF stream[i] = START_SYSEX THEN ScanFrames(stream, i + 1, i)
    ELSE IF stream[i] = SYSEX_END
         THEN IF start > 0 /\ i > start + 1
              THEN <<SysexDispatch(stream[start + 1], SubSeq(stream, start + 2, i - 1))>>
                     \o ScanFrames(stream, i + 1, 0)
              ELSE ScanFrames(stream, i + 1, 0)
         ELSE ScanFrames(stream, i + 1, start)

CompleteFrames(stream) == ScanFrames(stream, 1, 0)

SysexOf(out) == SelectSeq(out, LAMBDA d : d.kind = "sysex")

\* the markers of the stream come in pairs, a start marker then an end
\* marker: no stray marker among the bytes between the frames
MarkersPaired(stream) ==
    LET ms == SelectSeq(stream, LAMBDA b : b \in {START_SYSEX, SYSEX_END}) IN
    \A k \in 1..Len(ms) : ms[k] = IF k % 2 = 1 THEN START_SYSEX ELSE SYSEX_END

(***************************************************************************)
(* C15: every complete SysEx frame received while the board is ready is    *)
(* dispatched exactly once, with its own command and payload, whatever     *)
(* precedes it, and by the end of the data_received call that delivered    *)
(* its end marker: after each call the SysEx dispatches made so far are    *)
(* the complete frames of the bytes delivered so far (stated for the runs  *)
(* in which no call raised and the streams without stray markers).         *)
(***************************************************************************)
C15_FrameDispatchedOnce ==
    (decReady /\ MarkersPaired(decDelivered)) =>
        /\ decRaised = "none" => SysexOf(decOut) = CompleteFrames(decDelivered)
        /\ proto.raised = "none" => SysexOf(proto.out) = CompleteFrames(decDelivered)

\* a stream that is complete direct messages and nothing else
DirectOnly(stream) ==
    /\ Len(stream) % 3 = 0
    /\ \A i \in 1..Len(stream) :
          IF i % 3 = 1
          THEN HighNibble(stream[i]) \in {ANALOG_MESSAGE, DIGITAL_MESSAGE}
          ELSE stream[i] < 128

\* the buffer after one delivery of the whole stream
WholeBuf(stream) == DataReceived(<<>>, TRUE, stream).buf

(***************************************************************************)
(* C19: after every data_received call the buffer holds no byte of a       *)
(* dispatched message, so that a stream of complete direct messages alone  *)
(* leaves the buffer empty, in whatever chunks it arrives.                 *)
(***************************************************************************)
C19_BufferDrained ==
    (decReady /\ decDelivered # <<>> /\ DirectOnly(decDelivered)) =>
        /\ decBuffer = <<>>
        /\ WholeBuf(decDelivered) = <<>>
        /\ proto.buf = <<>>

ScheduledHandlers(d) ==
    [i \in 1..Len(d.scheduled) |->
        [f |-> d.scheduled[i].f, run |-> d.scheduled[i].a, step |-> d.scheduled[i].b]]

\* every handler of d.registered is scheduled exactly once, with the data of
\* the dispatch, and nothing else is
ScheduledExactly(d) ==
    /\ Len(d.scheduled) = Cardinality(d.registered)
    /\ {ScheduledHandlers(d)[i] : i \in 1..Len(d.scheduled)} = d.registered
    /\ \A i \in 1..Len(d.scheduled) :
          d.scheduled[i].t = "handler" /\ d.scheduled[i].data = d.data

====
